---- MODULE Spec2Model ----
(***************************************************************************)
(* The USF decoder plugin of MPD, in its two revisions:                    *)
(*   "frames"  src/unnamed/part_000 (lengths in milliseconds, the loop     *)
(*             counts decoded frames);                                     *)
(*   "fade"    src/src/decoder/plugins/UsfDecoderPlugin.cxx (lengths in    *)
(*             seconds, the loop reads the host's timestamp and fades).    *)
(*                                                                         *)
(* A string is a sequence of one-character strings.  A time of the host    *)
(* (decoder.timestamp) is kept as a whole number of half frames, that is   *)
(* in units of 1/(2*sample_rate) second, so that one frame, one buffer and *)
(* the 0.5 s correction of the fade revision are all whole numbers; the    *)
(* arithmetic on double is taken as exact.                                 *)
(***************************************************************************)
EXTENDS Integers, Sequences, FiniteSets, TLC

VARIABLES
    rev,            \* the revision that runs: "frames" or "fade"
    entry,          \* the entry point: "parse", "decode" or "scan"
    pc,             \* the position inside the entry point
    input,          \* the argument of the last get_length_from_string call made alone
    result,         \* its return value
    lengths,        \* UsfLengths: [length, fade]
    state,          \* UsfLoaderState: [enable_compare, enable_fifo_full]
    file,           \* what the load has observed of the file's metadata
    psf_version,    \* the value psf_load returned (the last one)
    emu,            \* the emulator instance
    sample_rate,    \* the rate the emulator reported
    loopvars,       \* the locals of the streaming loop
    host,           \* what the host (Decoder, TagHandler) has been told
    seek            \* the SEEK the last iteration received, and what was done about it

vars == << rev, entry, pc, input, result, lengths, state, file, psf_version,
           emu, sample_rate, loopvars, host, seek >>

----------------------------------------------------------------------------
(* Bounds of the model *)

\* the longest string handed to get_length_from_string on its own
MaxStrLen == 3
\* the most metadata pairs one psf_load hands to its callback
MaxTags == 2
\* the most buffers one decode submits
MaxIter == 6

\* the characters of the strings tried exhaustively
Alphabet == {"0", "1", "3", "9", ":", ".", "x"}

RECURSIVE StringsUpTo(_)
StringsUpTo(n) ==
    IF n = 0 THEN {<< >>}
    ELSE LET shorter == StringsUpTo(n - 1)
         IN  shorter \cup {Append(s, c) : s \in {t \in shorter : Len(t) = n - 1}, c \in Alphabet}

\* the strings the specification's testable properties name
NamedStrings ==
    { <<"9", "0">>,
      <<"1", ":", "3", "0">>,
      <<"1", ":", "3", "0", ".", "5">>,
      <<"1", ":", "3", "0", ".", "5", "0", "0">>,
      <<"2", ":", "0", "0", ":", "0", "0">>,
      <<"1", "x", "3", "0">>,
      <<"x", "1", "3", "0">>,
      <<"1", "3", "0", "x">> }

ParseInputs == StringsUpTo(MaxStrLen) \cup NamedStrings

\* the values of the length and fade tags of the files that are decoded
TagValues ==
    { <<"2">>, <<"1", ".", "5">>, <<"0">>, <<"x">> }

TagNames == {"length", "fade", "title", "comment", "_enablecompare", "_enableFIFOfull"}

\* the rates the emulator reports
SampleRates == {2048, 4096}

\* the targets of the host's seeks, in milliseconds (SongTime)
SeekTargetsMs == {0, 1511, 2500, 2097000}

----------------------------------------------------------------------------
(* Constants of the program *)

USF_BUFFER_FRAMES == 2048

\* unsigned long is 32 bits wide (ILP32, LLP64): 2^32 = ULONG_RANGE_K * 1000 + ULONG_RANGE_R
ULONG_RANGE_K == 4294967
ULONG_RANGE_R == 296

PSF_VERSION_USF == 33     \* 0x21

----------------------------------------------------------------------------
(* get_length_from_string *)

IsDigit(c) == c \in {"0", "1", "2", "3", "4", "5", "6", "7", "8", "9"}

DigitVal(c) ==
    CASE c = "0" -> 0 [] c = "1" -> 1 [] c = "2" -> 2 [] c = "3" -> 3 [] c = "4" -> 4
      [] c = "5" -> 5 [] c = "6" -> 6 [] c = "7" -> 7 [] c = "8" -> 8 [] c = "9" -> 9

\* the for loop, from index i (1-based) down to the first character;
\* yields the total in milliseconds, or -1 at the first other character
\* (the ints stay far below 2^31 for the strings of ParseInputs, so the signed
\* overflow a long run of digits would cause does not arise)
RECURSIVE ParseLoop(_, _, _, _, _, _)
ParseLoop(string, i, total, final_mult, local_mult, acc) ==
    IF i = 0 THEN total + final_mult * acc
    ELSE LET c == string[i] IN
         IF IsDigit(c)
         THEN ParseLoop(string, i - 1, total, final_mult, local_mult * 10,
                        acc + DigitVal(c) * local_mult)
         ELSE IF c = "."
         THEN ParseLoop(string, i - 1, total + acc * 1, final_mult, 1, 0)
         ELSE IF c = ":"
         THEN ParseLoop(string, i - 1, total + acc * 1000, 60000, 1, 0)
         ELSE -1

\* the frames revision: int, milliseconds
get_length_from_string(string) ==
    ParseLoop(string, Len(string), 0, 1000, 1, 0)

\* the fade revision: double, "return total/1000" on two ints
fade_get_length_from_string(string) ==
    LET total == ParseLoop(string, Len(string), 0, 1000, 1, 0)
    IN  IF total = -1 THEN -1 ELSE total \div 1000

----------------------------------------------------------------------------
(* Metadata callbacks *)

Rev == {"frames", "fade"}

\* UsfLengths as constructed.  In the frames revision the fields are unsigned
\* long: a value v < 0 stands for the unsigned value 2^32 + v, which is what the
\* assignment of the int -1 stores.
UsfLengths(r) ==
    IF r = "frames" THEN [length |-> 0, fade |-> 0]
                    ELSE [length |-> -1, fade |-> 0]

parse(r, value) ==
    IF r = "frames" THEN get_length_from_string(value)
                    ELSE fade_get_length_from_string(value)

set_length_from_tags(r, l, name, value) ==
    IF name = "length" THEN [l EXCEPT !.length = parse(r, value)]
    ELSE IF name = "fade" THEN [l EXCEPT !.fade = parse(r, value)]
    ELSE l

\* the names of usf_tags (frames) and of the usf_set_tag chain (fade)
usf_tags == {"title", "artist", "composer", "game", "year", "genre", "track"}

\* a value with a character that is neither a digit, '.' nor ':'
Malformed(value) ==
    \E i \in 1..Len(value) : ~IsDigit(value[i]) /\ value[i] \notin {".", ":"}

\* what the callbacks add to the record of the metadata seen so far
ObserveLengths(f, name, value) ==
    [f EXCEPT !.lengthKey = @ \/ name = "length",
              !.lengthBad = IF name = "length" THEN Malformed(value) ELSE @]

ObserveFlags(f, name) ==
    [f EXCEPT !.compareKey = @ \/ name = "_enablecompare",
              !.fifoKey = @ \/ name = "_enableFIFOfull"]

\* usf_info: the flags, and in the frames revision the lengths as well
usf_info_state(st, name) ==
    IF name = "_enablecompare" THEN [st EXCEPT !.enable_compare = TRUE]
    ELSE IF name = "_enableFIFOfull" THEN [st EXCEPT !.enable_fifo_full = TRUE]
    ELSE st

usf_info_lengths(l, name, value) ==
    IF name \in {"_enablecompare", "_enableFIFOfull"} THEN l
    ELSE set_length_from_tags("frames", l, name, value)

\* usf_tags_target: the lengths it leaves behind
usf_tags_target_lengths(r, l, name, value) ==
    IF r = "frames"
    THEN IF name \in usf_tags THEN l ELSE set_length_from_tags(r, l, name, value)
    ELSE set_length_from_tags(r, l, name, value)

track_lengths(length, fade) == length + fade

----------------------------------------------------------------------------
(* Initial state *)

NoFile == [n |-> 0, pass |-> 1, lengthKey |-> FALSE, lengthBad |-> FALSE,
           compareKey |-> FALSE, fifoKey |-> FALSE]

NoEmu == [status |-> "none", pos |-> 0, shutdowns |-> 0,
          compare |-> FALSE, fifo_full |-> FALSE]

NoLoop == [total_length |-> 0, loop |-> FALSE, decoded_frames |-> 0, total_frames |-> 0,
           exit |-> "none", sought |-> FALSE, seekIntoFade |-> FALSE,
           seekDuringFade |-> FALSE]

\* the gain of a buffer, the fraction num/den, and the timestamp it was rendered at
NoGain == [applied |-> FALSE, num |-> 1, den |-> 1, at |-> 0]

NoHost == [initialized |-> FALSE, duration |-> 0, durationReported |-> FALSE,
           submitted |-> 0, gain |-> NoGain, timestamp |-> 0, tags |-> 0,
           returned |-> "none"]

\* the SEEK of the last iteration, if it returned one
NoSeek == [received |-> FALSE, pending |-> FALSE, acks |-> 0, target |-> 0, thrown |-> 0,
           reported |-> 0, restarted |-> FALSE, duringFade |-> FALSE]

Init ==
    /\ rev \in Rev
    /\ entry \in {"parse", "decode", "scan"}
    /\ pc = "start"
    /\ input = << >>
    /\ result = 0
    /\ lengths = UsfLengths(rev)
    \* the two flags of UsfLoaderState have no initializer
    /\ state \in IF entry = "decode"
                 THEN [enable_compare : BOOLEAN, enable_fifo_full : BOOLEAN]
                 ELSE {[enable_compare |-> FALSE, enable_fifo_full |-> FALSE]}
    /\ file = NoFile
    /\ psf_version = 0
    /\ emu = IF entry = "decode" THEN [NoEmu EXCEPT !.status = "cleared"] ELSE NoEmu
    /\ sample_rate = 0
    /\ loopvars = NoLoop
    /\ host = NoHost
    /\ seek = NoSeek

----------------------------------------------------------------------------
(* get_length_from_string called on its own *)

ParseCall ==
    /\ entry = "parse" /\ pc = "start"
    /\ \E s \in ParseInputs :
         /\ input' = s
         /\ result' = parse(rev, s)
    /\ pc' = "done"
    /\ UNCHANGED << rev, entry, lengths, state, file, psf_version, emu, sample_rate,
                    loopvars, host, seek >>

----------------------------------------------------------------------------
(* usf_file_decode: the load *)

\* frames revision: psf_load hands one pair to usf_info
DecodeInfoFrames ==
    /\ entry = "decode" /\ rev = "frames" /\ pc = "start"
    /\ file.n < MaxTags
    /\ \E name \in TagNames, value \in TagValues :
         /\ state' = usf_info_state(state, name)
         /\ lengths' = usf_info_lengths(lengths, name, value)
         /\ file' = [ObserveFlags(ObserveLengths(file, name, value), name) EXCEPT !.n = @ + 1]
    /\ UNCHANGED << rev, entry, pc, input, result, psf_version, emu, sample_rate,
                    loopvars, host, seek >>

\* frames revision: psf_load returns; a negative value ends the decode
DecodeLoadedFrames ==
    /\ entry = "decode" /\ rev = "frames" /\ pc = "start"
    /\ \E v \in {-1, PSF_VERSION_USF} :
         /\ psf_version' = v
         /\ IF v < 0
            THEN /\ pc' = "done"
                 /\ emu' = [emu EXCEPT !.status = "freed"]
                 /\ loopvars' = [loopvars EXCEPT !.exit = "load_error"]
            ELSE /\ pc' = "loaded"
                 /\ emu' = [emu EXCEPT !.status = "loaded"]
                 /\ UNCHANGED loopvars
    /\ file' = [file EXCEPT !.n = 0]
    /\ UNCHANGED << rev, entry, input, result, lengths, state, sample_rate, host, seek >>

\* fade revision, first psf_load: one pair to usf_lengths_target
DecodeLengthsFade ==
    /\ entry = "decode" /\ rev = "fade" /\ pc = "start"
    /\ file.pass = 1 /\ file.n < MaxTags
    /\ \E name \in TagNames, value \in TagValues :
         /\ lengths' = set_length_from_tags("fade", lengths, name, value)
         /\ file' = [ObserveLengths(file, name, value) EXCEPT !.n = @ + 1]
    /\ UNCHANGED << rev, entry, pc, input, result, state, psf_version, emu, sample_rate,
                    loopvars, host, seek >>

\* fade revision: the first psf_load returns, the second one starts
DecodeTagsLoadedFade ==
    /\ entry = "decode" /\ rev = "fade" /\ pc = "start"
    /\ file.pass = 1
    /\ \E v \in {-1, 1, PSF_VERSION_USF} : psf_version' = v
    /\ file' = [file EXCEPT !.pass = 2, !.n = 0]
    /\ UNCHANGED << rev, entry, pc, input, result, lengths, state, emu, sample_rate,
                    loopvars, host, seek >>

\* fade revision, second psf_load: one pair to usf_info (value is never null)
DecodeInfoFade ==
    /\ entry = "decode" /\ rev = "fade" /\ pc = "start"
    /\ file.pass = 2 /\ file.n < MaxTags
    /\ \E name \in TagNames :
         /\ state' = usf_info_state(state, name)
         /\ file' = [ObserveFlags(file, name) EXCEPT !.n = @ + 1]
    /\ UNCHANGED << rev, entry, pc, input, result, lengths, psf_version, emu, sample_rate,
                    loopvars, host, seek >>

\* fade revision: the second psf_load returns;
\* psf_version_tags != 0x21 || psf_version_state <= 0 ends the decode
DecodeLoadedFade ==
    /\ entry = "decode" /\ rev = "fade" /\ pc = "start"
    /\ file.pass = 2
    /\ \E psf_version_state \in {-1, PSF_VERSION_USF} :
         IF psf_version # PSF_VERSION_USF \/ psf_version_state <= 0
         THEN /\ pc' = "done"
              /\ emu' = [emu EXCEPT !.status = "freed"]
              /\ loopvars' = [loopvars EXCEPT !.exit = "load_error"]
         ELSE /\ pc' = "loaded"
              /\ emu' = [emu EXCEPT !.status = "loaded"]
              /\ UNCHANGED loopvars
    /\ file' = [file EXCEPT !.n = 0, !.pass = 1]
    /\ UNCHANGED << rev, entry, input, result, lengths, state, psf_version,
                    sample_rate, host, seek >>

----------------------------------------------------------------------------
(* usf_file_decode: the configuration *)

\* (lengths.length * sample_rate) / 1000 on unsigned long
TotalFrames(length, sr) ==
    IF length >= 0
    THEN (length * sr) \div 1000
    ELSE ULONG_RANGE_K + ((ULONG_RANGE_R + length * sr) \div 1000)

\* the duration handed to decoder_initialized, in milliseconds
DecodeDuration(r, l) ==
    IF r = "frames" THEN l.length
                    ELSE 1000 * track_lengths(l.length, l.fade)

\* "bool loop = lengths.length == 0"
LoopMode(l) == l.length = 0

Configure ==
    /\ entry = "decode" /\ pc = "loaded"
    /\ \E sr \in SampleRates : sample_rate' = sr
    /\ emu' = [emu EXCEPT !.status = "running",
                          !.compare = state.enable_compare,
                          !.fifo_full = state.enable_fifo_full]
    /\ host' = [host EXCEPT !.initialized = TRUE,
                            !.duration = DecodeDuration(rev, lengths)]
    /\ loopvars' =
         IF rev = "frames"
         THEN [loopvars EXCEPT
                 !.loop = LoopMode(lengths),
                 !.decoded_frames = 0,
                 !.total_frames = IF LoopMode(lengths) THEN 0
                                  ELSE TotalFrames(lengths.length, sample_rate')]
         ELSE [loopvars EXCEPT
                 !.total_length = track_lengths(lengths.length, lengths.fade)]
    /\ pc' = "loop"
    /\ UNCHANGED << rev, entry, input, result, lengths, state, file, psf_version, seek >>

----------------------------------------------------------------------------
(* The host's side of DecoderAPI *)

Commands == {"NONE", "SEEK", "STOP"}

\* half frames per second, the unit of host.timestamp
Hfps(sr) == 2 * sr

\* decoder_data: the buffer is taken and the timestamp moves on by its duration
decoder_data(h, gain) ==
    [h EXCEPT !.submitted = @ + 1,
              !.gain = gain,
              !.timestamp = @ + 2 * USF_BUFFER_FRAMES]

\* decoder_timestamp
decoder_timestamp(h, t) == [h EXCEPT !.timestamp = t]

----------------------------------------------------------------------------
(* usf_file_decode: the streaming loop, frames revision *)

\* "decoder_seek_time(decoder).ToS()" stored in an int: whole seconds
SeekSecondsFrames(T) == T \div 1000

\* "target_time*sample_rate"
FramesToThrowFrames(T, sr) == SeekSecondsFrames(T) * sr

\* the same with >= for >
EndOfTrackFramesOffByOne(lv, decoded) == ~lv.loop /\ decoded >= lv.total_frames

\* "!loop && decoded_frames > total_frames"
EndOfTrackFrames(lv, decoded) == ~lv.loop /\ decoded > lv.total_frames

\* usf_restart, then usf_render(emu, nullptr, n, nullptr), its result unread
RestartAndDiscard(e, n) == [e EXCEPT !.pos = n]

\* the same with the check of the result after decoder_data
RenderFailsAfterSubmit ==
    /\ entry = "decode" /\ pc = "loop"
    /\ host.submitted < MaxIter
    /\ loopvars' = [loopvars EXCEPT !.exit = "render_error"]
    /\ host' = decoder_data(host, NoGain)
    /\ seek' = NoSeek
    /\ pc' = "shutdown"
    /\ UNCHANGED << rev, entry, input, result, lengths, state, file, psf_version, emu,
                    sample_rate >>

\* one iteration whose usf_render reports an error: break
RenderFails ==
    /\ entry = "decode" /\ pc = "loop"
    /\ host.submitted < MaxIter
    /\ loopvars' = [loopvars EXCEPT !.exit = "render_error"]
    /\ seek' = NoSeek
    /\ pc' = "shutdown"
    /\ UNCHANGED << rev, entry, input, result, lengths, state, file, psf_version, emu,
                    sample_rate, host >>

\* the seek of the frames revision, lines 260-269
SeekFrames(T, decoded) ==
    LET frames_to_throw == FramesToThrowFrames(T, sample_rate)
        reported == SeekSecondsFrames(T) * Hfps(sample_rate)
    IN  /\ emu' = RestartAndDiscard(emu, frames_to_throw)
        /\ host' = decoder_timestamp(decoder_data(host, NoGain), reported)
        /\ seek' = [NoSeek EXCEPT !.received = TRUE, !.acks = 1, !.target = T,
                                  !.thrown = frames_to_throw, !.reported = reported,
                                  !.restarted = TRUE]
        /\ loopvars' = [loopvars EXCEPT !.decoded_frames = frames_to_throw,
                                        !.sought = TRUE]
        /\ pc' = "loop"

\* one iteration of the frames revision whose usf_render succeeds
IterateFrames ==
    /\ entry = "decode" /\ rev = "frames" /\ pc = "loop"
    /\ host.submitted < MaxIter
    /\ \E cmd \in Commands, T \in SeekTargetsMs :
         LET decoded == loopvars.decoded_frames + USF_BUFFER_FRAMES IN
         IF EndOfTrackFrames(loopvars, decoded)
         THEN /\ T = 0
              /\ emu' = [emu EXCEPT !.pos = @ + USF_BUFFER_FRAMES]
              /\ host' = decoder_data(host, NoGain)
              /\ seek' = IF cmd = "SEEK"
                         THEN [NoSeek EXCEPT !.received = TRUE, !.pending = TRUE]
                         ELSE NoSeek
              /\ loopvars' = [loopvars EXCEPT !.decoded_frames = decoded,
                                              !.exit = "length"]
              /\ pc' = "shutdown"
         ELSE IF cmd = "SEEK"
         THEN SeekFrames(T, decoded)
         ELSE /\ T = 0
              /\ emu' = [emu EXCEPT !.pos = @ + USF_BUFFER_FRAMES]
              /\ host' = decoder_data(host, NoGain)
              /\ loopvars' = [loopvars EXCEPT !.decoded_frames = decoded,
                                              !.exit = IF cmd = "STOP" THEN "stop" ELSE @]
              /\ pc' = IF cmd = "STOP" THEN "shutdown" ELSE "loop"
              /\ seek' = NoSeek
    /\ UNCHANGED << rev, entry, input, result, lengths, state, file, psf_version,
                    sample_rate >>

\* usf_shutdown after the loop, then the return (the scope exit frees the instance)
Shutdown ==
    /\ entry = "decode" /\ pc = "shutdown"
    /\ emu' = [emu EXCEPT !.status = "freed", !.shutdowns = @ + 1]
    /\ pc' = "done"
    /\ UNCHANGED << rev, entry, input, result, lengths, state, file, psf_version,
                    sample_rate, loopvars, host, seek >>

----------------------------------------------------------------------------
(* usf_file_decode: the streaming loop, fade revision *)

\* the same without the "+0.5": the count truncated, not rounded
FramesToThrowFadeTruncated(T, sr) ==
    (T \div 1000) * sr + (((T % 1000) * sr) \div 1000)

\* "(unsigned) (sample_rate*target_time+0.5)" for a target of T milliseconds:
\* floor(sr*T/1000 + 1/2), computed by whole seconds and the rest
FramesToThrowFade(T, sr) ==
    (T \div 1000) * sr + (((T % 1000) * sr + 500) \div 1000)

\* "(frames_to_throw/(double)sample_rate)-0.5", in half frames
NewTimeFade(frames_to_throw, sr) == 2 * frames_to_throw - sr

\* "decoder.timestamp > track_length", the latter in seconds
PastTrackLength(ts, l, sr) == ts > l.length * Hfps(sr)

\* "fade_time > 0 && total_length >= 0 && decoder.timestamp > track_length"
FadeApplies(ts, l, total_length, sr) ==
    l.fade > 0 /\ total_length >= 0 /\ PastTrackLength(ts, l, sr)

\* the same without the clamp
NormalizedVolUnclamped(num) == num

\* "vol < 0 ? 0 : vol"
NormalizedVol(num) == IF num < 0 THEN 0 ELSE num

\* the gain of the buffer, as the fraction num/den:
\* vol = 1.0 - ((decoder.timestamp - track_length) / fade_time)
FadeGain(ts, l, total_length, sr) ==
    IF FadeApplies(ts, l, total_length, sr)
    THEN [applied |-> TRUE,
          num |-> NormalizedVol(l.fade * Hfps(sr) - (ts - l.length * Hfps(sr))),
          den |-> l.fade * Hfps(sr),
          at |-> ts]
    ELSE [NoGain EXCEPT !.at = ts]

\* "total_length >= 0 && decoder.timestamp > total_length+2"
EndOfTrackFade(ts, total_length, sr) ==
    total_length >= 0 /\ ts > (total_length + 2) * Hfps(sr)

\* the same with the assignment left out
TotalLengthAfterSeekKept(ts, l, total_length, sr) == total_length

\* "if (decoder.timestamp > track_length) total_length = -1"
TotalLengthAfterSeek(ts, l, total_length, sr) ==
    IF PastTrackLength(ts, l, sr) THEN -1 ELSE total_length

\* a target inside the fade window of the track
TargetInFadeWindow(T, l) ==
    l.fade > 0 /\ T > 1000 * l.length /\ T <= 1000 * (l.length + l.fade)

\* the seek of the fade revision, lines 272-288; h is the host after decoder_data
SeekFade(T, h) ==
    LET frames_to_throw == FramesToThrowFade(T, sample_rate)
        newTime == NewTimeFade(frames_to_throw, sample_rate)
        during == PastTrackLength(h.timestamp, lengths, sample_rate)
    IN  /\ emu' = RestartAndDiscard(emu, frames_to_throw)
        /\ host' = decoder_timestamp(h, newTime)
        /\ seek' = [NoSeek EXCEPT !.received = TRUE, !.acks = 1, !.target = T,
                                  !.thrown = frames_to_throw, !.reported = newTime,
                                  !.restarted = TRUE, !.duringFade = during]
        /\ loopvars' = [loopvars EXCEPT
                          !.sought = TRUE,
                          !.seekIntoFade = @ \/ TargetInFadeWindow(T, lengths),
                          !.seekDuringFade = @ \/ during,
                          !.total_length = TotalLengthAfterSeek(h.timestamp, lengths, @,
                                                                sample_rate)]
        /\ pc' = "loop"

\* one iteration of the fade revision whose usf_render succeeds
IterateFade ==
    /\ entry = "decode" /\ rev = "fade" /\ pc = "loop"
    /\ host.submitted < MaxIter
    /\ \E cmd \in Commands, T \in SeekTargetsMs :
         LET gain == FadeGain(host.timestamp, lengths, loopvars.total_length, sample_rate)
             h == decoder_data(host, gain)
         IN
         IF EndOfTrackFade(h.timestamp, loopvars.total_length, sample_rate)
         THEN /\ T = 0
              /\ emu' = [emu EXCEPT !.pos = @ + USF_BUFFER_FRAMES]
              /\ host' = h
              /\ seek' = IF cmd = "SEEK"
                         THEN [NoSeek EXCEPT !.received = TRUE, !.pending = TRUE]
                         ELSE NoSeek
              /\ loopvars' = [loopvars EXCEPT !.exit = "length"]
              /\ pc' = "shutdown"
         ELSE IF cmd = "SEEK"
         THEN SeekFade(T, h)
         ELSE /\ T = 0
              /\ emu' = [emu EXCEPT !.pos = @ + USF_BUFFER_FRAMES]
              /\ host' = h
              /\ loopvars' = [loopvars EXCEPT !.exit = IF cmd = "STOP" THEN "stop" ELSE @]
              /\ pc' = IF cmd = "STOP" THEN "shutdown" ELSE "loop"
              /\ seek' = NoSeek
    /\ UNCHANGED << rev, entry, input, result, lengths, state, file, psf_version,
                    sample_rate >>

----------------------------------------------------------------------------
(* usf_scan_file *)

\* psf_load hands one pair to usf_tags_target
ScanTag ==
    /\ entry = "scan" /\ pc = "start"
    /\ file.n < MaxTags
    /\ \E name \in TagNames, value \in TagValues :
         /\ lengths' = usf_tags_target_lengths(rev, lengths, name, value)
         /\ host' = [host EXCEPT !.tags = IF name \in usf_tags THEN @ + 1 ELSE @]
         /\ file' = [ObserveLengths(file, name, value) EXCEPT !.n = @ + 1]
    /\ UNCHANGED << rev, entry, pc, input, result, state, psf_version, emu, sample_rate,
                    loopvars, seek >>

\* the duration handed to tag_handler_invoke_duration, in milliseconds
ScanDuration(r, l) ==
    IF r = "frames" THEN l.length
                    ELSE 1000 * track_lengths(l.length, l.fade)

\* psf_load returns: false on a negative value, else the duration and true
ScanLoaded ==
    /\ entry = "scan" /\ pc = "start"
    /\ \E v \in {-1, 1, PSF_VERSION_USF} :
         /\ psf_version' = v
         /\ host' = IF v < 0
                    THEN [host EXCEPT !.returned = "false"]
                    ELSE [host EXCEPT !.returned = "true",
                                      !.durationReported = TRUE,
                                      !.duration = ScanDuration(rev, lengths)]
    /\ pc' = "done"
    /\ UNCHANGED << rev, entry, input, result, lengths, state, file, emu, sample_rate,
                    loopvars, seek >>

----------------------------------------------------------------------------
(* The specification *)

Next ==
    \/ ParseCall
    \/ DecodeInfoFrames
    \/ DecodeLoadedFrames
    \/ DecodeLengthsFade
    \/ DecodeTagsLoadedFade
    \/ DecodeInfoFade
    \/ DecodeLoadedFade
    \/ Configure
    \/ RenderFails
    \/ IterateFrames
    \/ IterateFade
    \/ Shutdown
    \/ ScanTag
    \/ ScanLoaded

Spec == Init /\ [][Next]_vars

----------------------------------------------------------------------------
(* Properties *)

Str90 == <<"9", "0">>
Str1m30 == <<"1", ":", "3", "0">>
Str1m30p5 == <<"1", ":", "3", "0", ".", "5">>
Str2h == <<"2", ":", "0", "0", ":", "0", "0">>

Parsed == entry = "parse" /\ pc = "done"

\* C1: get_length_from_string returns milliseconds: 90000 for "90", 90000 for
\* "1:30", 90500 for "1:30.5", 7200000 for "2:00:00", and -1 for every string
\* with a character other than a digit, '.' or ':'.
C1_ParserExamples ==
    (Parsed /\ rev = "frames") =>
        /\ input = Str90 => result = 90000
        /\ input = Str1m30 => result = 90000
        /\ input = Str1m30p5 => result = 90500
        /\ input = Str2h => result = 7200000
        /\ Malformed(input) => result = -1

\* C2: with no length key in the metadata, whatever the fade key, the streaming
\* loop is never left because of a length or time limit.
C2_NoLengthKeyNeverEndsByLength ==
    (entry = "decode" /\ ~file.lengthKey) => loopvars.exit # "length"

\* a step of the loop that submits a buffer
Submits == host'.submitted = host.submitted + 1

\* a track with a length and a fade window after it
HasFadeWindow == rev = "fade" /\ lengths.length >= 0 /\ lengths.fade > 0

\* C3 as stated: once a seek had its target inside the fade window, no later
\* buffer is attenuated and the loop is not left by the length limit; a seek
\* with its target before the window leaves total_length as it was.
C3_SeekTargetInFadeDisables ==
    [][ /\ (HasFadeWindow /\ loopvars.seekIntoFade /\ Submits) =>
              (~host'.gain.applied /\ loopvars'.exit # "length")
        /\ (HasFadeWindow /\ seek'.restarted /\ Submits
              /\ seek'.target <= 1000 * lengths.length) =>
              loopvars'.total_length = loopvars.total_length ]_vars

\* C3 as amended: what counts is the position at which the seek is taken.  Once
\* a seek was taken with the timestamp past the track length, no later buffer
\* is attenuated and the loop is not left by the length limit; a seek taken
\* at or before the track length leaves total_length as it was.
C3_SeekDuringFadeDisables ==
    [][ /\ (rev = "fade" /\ loopvars.seekDuringFade /\ Submits) =>
              (~host'.gain.applied /\ loopvars'.exit # "length")
        /\ (rev = "fade" /\ loopvars'.seekDuringFade) => loopvars'.total_length < 0
        /\ (rev = "fade" /\ seek'.restarted /\ Submits /\ ~seek'.duringFade) =>
              (/\ loopvars'.total_length = loopvars.total_length
               /\ loopvars'.seekDuringFade = loopvars.seekDuringFade) ]_vars

\* a buffer rendered inside the fade window went out unchanged after a seek
\* taken during the fade
C3_Witness ==
    /\ rev = "fade" /\ loopvars.seekDuringFade /\ ~seek.received
    /\ lengths.length >= 0 /\ lengths.fade > 0
    /\ track_lengths(lengths.length, lengths.fade) >= 0
    /\ PastTrackLength(host.gain.at, lengths, sample_rate)
    /\ ~host.gain.applied

\* n is T milliseconds times sr frames per second, rounded to the nearest
\* whole number (halves upwards)
IsRounded(n, T, sr) ==
    LET m == n - (T \div 1000) * sr
        d == 2 * (1000 * m - (T % 1000) * sr)
    IN  d <= 1000 /\ d > -1000

\* n is sr times the whole seconds of T milliseconds
IsWholeSeconds(n, T, sr) ==
    /\ n % sr = 0
    /\ 1000 * (n \div sr) <= T
    /\ T < 1000 * ((n \div sr) + 1)

\* C4 as stated: a seek to T restarts the emulator, discards round(T x
\* sample_rate) frames and reports that count over the sample rate, less 0.5 s
\* in the fade revision.
C4_SeekDiscardsRounded ==
    seek.restarted =>
        /\ emu.pos = seek.thrown
        /\ IsRounded(seek.thrown, seek.target, sample_rate)
        /\ seek.reported = 2 * seek.thrown - (IF rev = "fade" THEN sample_rate ELSE 0)
        /\ host.timestamp = seek.reported

\* C4 as amended: the fade revision discards round(T x sample_rate) frames,
\* the frames revision sample_rate times the whole seconds of T; each reports
\* the discarded count over the sample rate, the fade revision less 0.5 s.
C4_SeekDiscards ==
    seek.restarted =>
        /\ emu.pos = seek.thrown
        /\ rev = "fade" => IsRounded(seek.thrown, seek.target, sample_rate)
        /\ rev = "frames" => IsWholeSeconds(seek.thrown, seek.target, sample_rate)
        /\ seek.reported = 2 * seek.thrown - (IF rev = "fade" THEN sample_rate ELSE 0)
        /\ host.timestamp = seek.reported

\* a seek of the fade revision to a time that is no whole number of frames,
\* rounded upwards
C4_Witness ==
    /\ rev = "fade" /\ seek.restarted
    /\ (seek.target * sample_rate) % 1000 >= 500
    /\ seek.thrown > FramesToThrowFadeTruncated(seek.target, sample_rate)

\* C5: the gain of a buffer is within [0, 1]; a buffer rendered at or before
\* the track length goes out unchanged; past it the gain is 1 less the part of
\* the fade length gone by, 0 at length + fade and 0 beyond.
C5_FadeGain ==
    LET g == host.gain
        start == lengths.length * Hfps(sample_rate)
        den == lengths.fade * Hfps(sample_rate)
    IN  /\ g.den > 0 /\ 0 <= g.num /\ g.num <= g.den
        /\ ~g.applied => g.num = g.den
        /\ (rev = "fade" /\ g.applied) =>
             /\ g.at > start
             /\ g.den = den
             /\ g.at - start <= den => g.num = den - (g.at - start)
             /\ g.at - start >= den => g.num = 0
        /\ (rev = "fade" /\ pc # "start" /\ g.at <= start) => ~g.applied
        /\ rev = "frames" => ~g.applied

\* a buffer rendered past length + fade went out with gain 0
C5_Witness ==
    /\ rev = "fade" /\ host.gain.applied /\ host.gain.num = 0
    /\ host.gain.at > (lengths.length + lengths.fade) * Hfps(sample_rate)

\* C6: after a successful load usf_scan_file reports length + fade when the
\* length key is present and an unknown (negative) duration when it is absent;
\* after a negative load result it reports nothing and returns false.
C6_ScanDuration ==
    (entry = "scan" /\ pc = "done" /\ rev = "fade") =>
        IF psf_version < 0
        THEN host.returned = "false" /\ ~host.durationReported
        ELSE /\ host.returned = "true" /\ host.durationReported
             /\ file.lengthKey =>
                    host.duration = 1000 * (lengths.length + lengths.fade)
             /\ ~file.lengthKey => host.duration < 0

\* C7: a malformed length tag does not abort the decode and the loop is never
\* left because of a length limit.
C7_MalformedLengthLoops ==
    (entry = "decode" /\ rev = "frames" /\ file.lengthBad) =>
        loopvars.exit # "length"

Ended == {"render_error", "stop", "length"}

Bounded == entry = "decode" /\ rev = "frames" /\ lengths.length > 0

C10_SeekAcknowledged ==
    seek.received =>
        (~seek.pending /\ seek.acks = 1 /\ seek.restarted /\ host.timestamp = seek.reported)

\* C11: the two flags handed to usf_set_compare and usf_set_fifo_full are fixed
\* by the metadata alone: each is true exactly when usf_info saw its key during
\* the load, and false when the key is absent.
C11_FlagsFollowKeys ==
    (entry = "decode" /\ emu.status = "running") =>
        /\ emu.compare = file.compareKey
        /\ emu.fifo_full = file.fifoKey

====
